---- MODULE Spec2Model ----
(***************************************************************************)
(* stdex::buffer<T>: the growable typed buffer of Source/buffer.hpp and    *)
(* its earlier revision Source/buffer.h, over an explicit heap of blocks.  *)
(* A block is what new T[n]() returns; a buffer is the triple              *)
(* (data_, size_, capacity_); the caller may hold raw blocks (release(),   *)
(* new T[n]) and hand them back with acquire().                            *)
(***************************************************************************)
EXTENDS Integers, Sequences, FiniteSets, TLC

\* ---- bounds of the model ------------------------------------------------
MaxCap    == 2   \* largest capacity in the two-buffer and the raw-block machine
MaxCapOne == 3   \* largest capacity in the one-buffer machine
MaxSrc    == 2   \* longest array a caller passes in the one-buffer machine
SizeBits  == 12  \* width of size_t in these machines; no size reaches 2^SizeBits
WrapBits  == 2   \* width of size_t where size + length is made to wrap

Bufs    == {"a", "b"}
NBlocks == Cardinality(Bufs) + 2      \* a and b, the caller's raw block, one in flight
Blocks  == 1..NBlocks
SizeMod == 2 ^ SizeBits

DefaultT == 0

\* the "Append a data with reserved capacity" test: a{1, 2, 3, 4, 5},
\* a.assign(10), a.append({6, 7, 8})
ScnList == <<1, 2, 3, 4, 5>>
ScnCap  == 10
ScnTail == <<6, 7, 8>>                      \* T() for the element type
\* Two element values other than T(): no branch of the code reads an element,
\* so two values that differ from each other and from T() tell every slot apart.
Elems == {1, 2}

\* A machine: capacity bound mc, source length bound ms, the elements callers
\* pass, the buffers passed as const buffer& or buffer&&, whether callers pass
\* ranges of a buffer's own elements, whether new may throw, whether the
\* record of the last call names the operation.
CfgTwo == [mc |-> MaxCap, ms |-> MaxCap, nulls |-> TRUE, vals |-> {DefaultT}, bufs |-> Bufs,
           own |-> FALSE, fails |-> {FALSE}, ops |-> FALSE]
CfgOne == [mc |-> MaxCapOne, ms |-> MaxSrc, nulls |-> TRUE, vals |-> Elems, bufs |-> Bufs,
           own |-> TRUE, fails |-> BOOLEAN, ops |-> TRUE]
CfgAcq == [mc |-> MaxCap, ms |-> MaxCap, nulls |-> TRUE, vals |-> Elems, bufs |-> {"a"},
           own |-> FALSE, fails |-> {FALSE}, ops |-> TRUE]
CfgScn == [mc |-> ScnCap, ms |-> ScnCap, nulls |-> FALSE, vals |-> {}, bufs |-> {"a"},
           own |-> FALSE, fails |-> {FALSE}, ops |-> TRUE]
CfgBoth == [mc |-> MaxCap, ms |-> MaxCap, nulls |-> FALSE, vals |-> Elems, bufs |-> Bufs,
            own |-> FALSE, fails |-> {FALSE}, ops |-> TRUE]
CfgPair == [mc |-> MaxCap, ms |-> MaxCap, nulls |-> FALSE, vals |-> {1}, bufs |-> Bufs,
            own |-> FALSE, fails |-> {FALSE}, ops |-> TRUE]

VARIABLES
    variant,  \* "hpp" (Source/buffer.hpp) or "h" (Source/buffer.h)
    heap,     \* block id -> [live, cells]
    buf,      \* buffer name -> [data, size, capacity]; data = 0 is nullptr
    raw,      \* the caller's raw pointer (from release() or new T[n]); 0 is nullptr
    last      \* the last call: operation and outcome

vars == <<variant, heap, buf, raw, last>>

\* ---- values, pointers, blocks -------------------------------------------
min(m, n) == IF m < n THEN m ELSE n
max(m, n) == IF m > n THEN m ELSE n

\* size_t addition
SizeAdd(S, m, n) == (m + n) % S.mod

EmptyBuf  == [data |-> 0, size |-> 0, capacity |-> 0]
DeadBlock == [live |-> FALSE, cells |-> <<>>]

\* a const T* argument: nullptr, an array outside the heap (caller array,
\* initializer list, &value), or an address inside a heap block
NullSrc      == [kind |-> "null", blk |-> 0, off |-> 0, elems |-> <<>>]
ExtSrc(s)    == [kind |-> "ext",  blk |-> 0, off |-> 0, elems |-> s]
PtrSrc(p, o) == IF p = 0 THEN NullSrc
                ELSE [kind |-> "blk", blk |-> p, off |-> o, elems |-> <<>>]

\* n value-initialised elements
RECURSIVE Zeros(_)
Zeros(n) == IF n = 0 THEN <<>> ELSE Append(Zeros(n - 1), DefaultT)

\* the context a member function runs in and leaves behind
Ctx(h, b) == [heap |-> h, buf |-> b, mod |-> SizeMod, err |-> "none",
              uaf |-> FALSE, dfree |-> FALSE, oob |-> FALSE, ret |-> 0]

\* new T[n](): the lowest free block, value-initialised
NewId(h) == CHOOSE p \in Blocks : ~h[p].live /\ \A q \in Blocks : ~h[q].live => p <= q

\* (a faulty variant: new T[n] without the value-initialisation, the slots
\* holding what the memory held)
new_array_uninit(h, p, n) ==
    [h EXCEPT ![p] = [live |-> TRUE, cells |-> [i \in 1..n |-> 1]]]

new_array(h, p, n) == [h EXCEPT ![p] = [live |-> TRUE, cells |-> Zeros(n)]]

\* delete[] p: nothing for nullptr; deleting a dead block is a double free
delete_array(S, p) ==
    IF p = 0 THEN S
    ELSE IF ~S.heap[p].live THEN [S EXCEPT !.dfree = TRUE]
    ELSE [S EXCEPT !.heap[p] = DeadBlock]

\* reading element i (from 0) of a source; a dead or too short block yields
\* whatever the junk sequence says
ReadOk(h, d, i) ==
    \/ d.kind = "ext" /\ i + 1 <= Len(d.elems)
    \/ d.kind = "blk" /\ h[d.blk].live /\ d.off + i + 1 <= Len(h[d.blk].cells)

Rd(h, d, i, junk) ==
    IF d.kind = "ext" /\ i + 1 <= Len(d.elems) THEN d.elems[i + 1]
    ELSE IF d.kind = "blk" /\ h[d.blk].live /\ d.off + i + 1 <= Len(h[d.blk].cells)
         THEN h[d.blk].cells[d.off + i + 1]
    ELSE IF i + 1 <= Len(junk) THEN junk[i + 1] ELSE DefaultT

ReadsDead(h, d, n) == d.kind = "blk" /\ n > 0 /\ ~h[d.blk].live

\* writing slot i (from 0) of block p; outside the block nothing is modelled
Wr(h, p, i, v) ==
    IF p # 0 /\ h[p].live /\ i >= 0 /\ i + 1 <= Len(h[p].cells)
    THEN [h EXCEPT ![p].cells[i + 1] = v] ELSE h

WritesOut(h, p, first, n) ==
    n > 0 /\ (p = 0 \/ ~h[p].live \/ first < 0 \/ first + n > Len(h[p].cells))

\* the first n elements of a source, read before anything is written
RECURSIVE ReadAll(_, _, _, _)
ReadAll(h, d, n, junk) ==
    IF n = 0 THEN <<>> ELSE Append(ReadAll(h, d, n - 1, junk), Rd(h, d, n - 1, junk))

\* std::copy(first, first + n, d_first) as the element loop
RECURSIVE copy_loop(_, _, _, _, _, _, _)
copy_loop(h, d, i, n, p, off, junk) ==
    IF i >= n THEN h
    ELSE copy_loop(Wr(h, p, off + i, Rd(h, d, i, junk)), d, i + 1, n, p, off, junk)

\* std::copy: the element loop, or memmove (mm) for trivially copyable T
std_copy(h, d, n, p, off, mm, junk) ==
    IF mm THEN copy_loop(h, ExtSrc(ReadAll(h, d, n, junk)),
                         0, n, p, off, junk)
    ELSE copy_loop(h, d, 0, n, p, off, junk)

\* std::copy_backward(p + first, p + lst, p + dlast): last element first
RECURSIVE copy_backward(_, _, _, _, _)
copy_backward(h, p, first, lst, dlast) ==
    IF lst <= first THEN h
    ELSE copy_backward(Wr(h, p, dlast - 1, Rd(h, PtrSrc(p, 0), lst - 1, <<>>)),
                       p, first, lst - 1, dlast - 1)

\* the live content [0, size) and the whole block [0, capacity) of a buffer
BlockOf(h, b) == IF b.data = 0 THEN <<>> ELSE h[b.data].cells
Content(h, b) == SubSeq(BlockOf(h, b), 1, b.size)

\* ---- Source/buffer.hpp ---------------------------------------------------
\* nd = [fail, mm, junk]: whether new throws std::bad_alloc, whether
\* std::copy is memmove, and what a read of dead memory returns

\* (a faulty variant: the old block is deleted before the new one is
\* allocated)
hpp_assign3_frees_first(S, x, d, size, capacity, nd) ==
    LET sz == IF capacity > size THEN size ELSE capacity
        S0 == delete_array(S, S.buf[x].data)
    IN  IF capacity > 0 /\ nd.fail THEN [S0 EXCEPT !.err = "bad_alloc"]
        ELSE LET tmp == IF capacity > 0 THEN NewId(S0.heap) ELSE 0
                 h1  == IF tmp # 0 THEN new_array(S0.heap, tmp, capacity) ELSE S0.heap
                 cp  == tmp # 0 /\ d.kind # "null" /\ sz > 0
                 h2  == IF cp THEN std_copy(h1, d, sz, tmp, 0, nd.mm, nd.junk) ELSE h1
             IN  [S0 EXCEPT !.heap = h2,
                            !.buf[x] = [data     |-> tmp,
                                        size     |-> IF tmp # 0 THEN sz ELSE 0,
                                        capacity |-> IF tmp # 0 THEN capacity ELSE 0]]

\* (a faulty variant: the size is not clamped to the capacity)
hpp_assign3_unclamped(S, x, d, size, capacity, nd) ==
    IF capacity > 0 /\ nd.fail THEN [S EXCEPT !.err = "bad_alloc"]
    ELSE LET tmp == IF capacity > 0 THEN NewId(S.heap) ELSE 0
             h1  == IF tmp # 0 THEN new_array(S.heap, tmp, capacity) ELSE S.heap
             S3  == delete_array([S EXCEPT !.heap = h1], S.buf[x].data)
         IN  [S3 EXCEPT !.buf[x] = [data     |-> tmp,
                                    size     |-> IF tmp # 0 THEN size ELSE 0,
                                    capacity |-> IF tmp # 0 THEN capacity ELSE 0]]

\* void assign(const T* data, size_t size, size_t capacity)
hpp_assign3(S, x, d, size, capacity, nd) ==
    LET sz  == IF capacity > size THEN size ELSE capacity
        old == S.buf[x].data
    IN  IF capacity > 0 /\ nd.fail THEN [S EXCEPT !.err = "bad_alloc"]
        ELSE LET tmp  == IF capacity > 0 THEN NewId(S.heap) ELSE 0
                 h1   == IF tmp # 0 THEN new_array(S.heap, tmp, capacity) ELSE S.heap
                 cp   == tmp # 0 /\ d.kind # "null" /\ sz > 0
                 h2   == IF cp THEN std_copy(h1, d, sz, tmp, 0, nd.mm, nd.junk) ELSE h1
                 S2   == [S EXCEPT !.heap = h2,
                                   !.uaf = S.uaf \/ (cp /\ ReadsDead(h1, d, sz))]
                 S3   == delete_array(S2, old)      \* safe_tmp.reset(data_), destroyed at return
             IN  [S3 EXCEPT !.buf[x] = [data     |-> tmp,
                                        size     |-> IF tmp # 0 THEN sz ELSE 0,
                                        capacity |-> IF tmp # 0 THEN capacity ELSE 0]]

\* (a faulty variant: one slot of headroom is reserved)
hpp_assign_cap_headroom(S, x, capacity, nd) ==
    IF capacity # S.buf[x].capacity
    THEN hpp_assign3(S, x, PtrSrc(S.buf[x].data, 0), S.buf[x].size, capacity + 1, nd)
    ELSE S

\* (a faulty variant: the live elements are not carried over)
hpp_assign_cap_drops(S, x, capacity, nd) ==
    IF capacity # S.buf[x].capacity
    THEN hpp_assign3(S, x, NullSrc, 0, capacity, nd)
    ELSE S

\* void assign(size_t capacity)
hpp_assign_cap(S, x, capacity, nd) ==
    IF capacity # S.buf[x].capacity
    THEN hpp_assign3(S, x, PtrSrc(S.buf[x].data, 0), S.buf[x].size, capacity, nd)
    ELSE S

\* void assign(const T* data, size_t size)
hpp_assign2(S, x, d, size, nd) == hpp_assign3(S, x, d, size, size, nd)

\* (a faulty variant: the tail is shifted with a forward element loop)
hpp_insert_place_forward(S1, x, d, size, position, capacity, nd) ==
    LET b  == S1.buf[x]
        cp == d.kind # "null" /\ size > 0
        h2 == IF cp THEN copy_loop(S1.heap, PtrSrc(b.data, position), 0,
                                   b.size - position, b.data, position + size, <<>>)
              ELSE S1.heap
        h3 == IF cp THEN std_copy(h2, d, size, b.data, position, nd.mm, nd.junk)
              ELSE h2
    IN  [S1 EXCEPT !.heap = h3, !.buf[x].size = capacity]

\* insert, after the growth: shift the tail, copy the source in, set size_
\* (a faulty variant: the tail is shifted for a null source as well)
hpp_insert_place_opens_gap(S1, x, d, size, position, capacity, nd) ==
    LET b  == S1.buf[x]
        cp == d.kind # "null" /\ size > 0
        h2 == IF size > 0 THEN copy_backward(S1.heap, b.data, position, b.size, capacity)
              ELSE S1.heap
        h3 == IF cp THEN std_copy(h2, d, size, b.data, position, nd.mm, nd.junk)
              ELSE h2
    IN  [S1 EXCEPT !.heap = h3,
                   !.uaf = S1.uaf \/ (cp /\ ReadsDead(h2, d, size)),
                   !.buf[x].size = capacity]

hpp_insert_place(S1, x, d, size, position, capacity, nd) ==
    LET b  == S1.buf[x]
        cp == d.kind # "null" /\ size > 0
        h2 == IF cp THEN copy_backward(S1.heap, b.data, position, b.size, capacity)
              ELSE S1.heap
        h3 == IF cp THEN std_copy(h2, d, size, b.data, position, nd.mm, nd.junk)
              ELSE h2
    IN  [S1 EXCEPT !.heap = h3,
                   !.uaf = S1.uaf \/ (cp /\ ReadsDead(h2, d, size)),
                   !.oob = S1.oob \/ (cp /\ (\/ WritesOut(S1.heap, b.data,
                                                             capacity - (b.size - position),
                                                             b.size - position)
                                              \/ WritesOut(S1.heap, b.data, position, size))),
                   !.buf[x].size = capacity]

\* (a faulty variant: the position is checked against capacity_)
hpp_insert_checks_capacity(S, x, d, size, position, nd) ==
    IF position > S.buf[x].capacity THEN [S EXCEPT !.err = "invalid_argument"]
    ELSE LET capacity == SizeAdd(S, size, S.buf[x].size)
             exceeds  == capacity > S.buf[x].capacity
             S1       == IF exceeds THEN hpp_assign_cap(S, x, capacity, nd) ELSE S
         IN  IF S1.err # "none" THEN S1
             ELSE hpp_insert_place(S1, x, d, size, position, capacity, nd)

\* (a faulty variant: a source without elements is rejected)
hpp_insert_rejects_empty(S, x, d, size, position, nd) ==
    IF position > S.buf[x].size \/ d.kind = "null" \/ size = 0
    THEN [S EXCEPT !.err = "invalid_argument"]
    ELSE LET capacity == SizeAdd(S, size, S.buf[x].size)
             exceeds  == capacity > S.buf[x].capacity
             S1       == IF exceeds THEN hpp_assign_cap(S, x, capacity, nd) ELSE S
         IN  IF S1.err # "none" THEN S1
             ELSE hpp_insert_place(S1, x, d, size, position, capacity, nd)

\* void insert(const T* data, size_t size, size_t position)
hpp_insert(S, x, d, size, position, nd) ==
    IF position > S.buf[x].size THEN [S EXCEPT !.err = "invalid_argument"]
    ELSE LET capacity == SizeAdd(S, size, S.buf[x].size)
             exceeds  == capacity > S.buf[x].capacity
             S1       == IF exceeds THEN hpp_assign_cap(S, x, capacity, nd) ELSE S
         IN  IF S1.err # "none" THEN S1
             ELSE hpp_insert_place(S1, x, d, size, position, capacity, nd)

\* (a faulty variant: the elements are put in front)
hpp_append_prepends(S, x, d, size, nd) == hpp_insert(S, x, d, size, 0, nd)

\* void append(const T* data, size_t size)
hpp_append(S, x, d, size, nd) == hpp_insert(S, x, d, size, S.buf[x].size, nd)

\* (a faulty variant: a buffer without live elements keeps its block)
hpp_shrink_to_fit_skips_empty(S, x, nd) ==
    IF S.buf[x].capacity # S.buf[x].size /\ S.buf[x].size > 0
    THEN hpp_assign2(S, x, PtrSrc(S.buf[x].data, 0), S.buf[x].size, nd)
    ELSE S

\* void shrink_to_fit()
hpp_shrink_to_fit(S, x, nd) ==
    IF S.buf[x].capacity # S.buf[x].size
    THEN hpp_assign2(S, x, PtrSrc(S.buf[x].data, 0), S.buf[x].size, nd)
    ELSE S

\* void clear() noexcept   (the same text in both files)
clear(S, x) ==
    LET tmp == S.buf[x].data
    IN  delete_array([S EXCEPT !.buf[x] = EmptyBuf], tmp)

\* (a faulty variant: the buffer is cleared before the arguments are
\* checked)
hpp_acquire_clears_first(S, x, p, size, capacity) ==
    IF p = 0 \/ size = 0 \/ size > capacity
    THEN [clear(S, x) EXCEPT !.err = "invalid_argument"]
    ELSE [clear(S, x) EXCEPT !.buf[x] = [data |-> p, size |-> size,
                                         capacity |-> capacity]]

\* (a faulty variant: the block owned before the call is not deleted)
hpp_acquire_leaks(S, x, p, size, capacity) ==
    IF p = 0 \/ size = 0 \/ size > capacity
    THEN [S EXCEPT !.err = "invalid_argument"]
    ELSE [S EXCEPT !.buf[x] = [data |-> p, size |-> size, capacity |-> capacity]]

\* (a faulty variant: the size is taken as the capacity)
hpp_acquire_drops_capacity(S, x, p, size, capacity) ==
    IF p = 0 \/ size = 0 \/ size > capacity
    THEN [S EXCEPT !.err = "invalid_argument"]
    ELSE [clear(S, x) EXCEPT !.buf[x] = [data |-> p, size |-> size,
                                         capacity |-> size]]

\* void acquire(T* data, size_t size, size_t capacity)
hpp_acquire(S, x, p, size, capacity) ==
    IF p = 0 \/ size = 0 \/ size > capacity
    THEN [S EXCEPT !.err = "invalid_argument"]
    ELSE [clear(S, x) EXCEPT !.buf[x] = [data |-> p, size |-> size,
                                         capacity |-> capacity]]

\* (a faulty variant: capacity_ is not reset)
release_keeps_capacity(S, x) ==
    [S EXCEPT !.buf[x].data = 0, !.buf[x].size = 0, !.ret = S.buf[x].data]

\* (a faulty variant: the block is deleted before its pointer is returned)
release_deletes(S, x) == [clear(S, x) EXCEPT !.ret = S.buf[x].data]

\* T* release() noexcept   (the same text in both files)
release(S, x) == [S EXCEPT !.buf[x] = EmptyBuf, !.ret = S.buf[x].data]

\* (a faulty variant: the source keeps its pointer)
assign_move_shares(S, x, y) ==
    IF x # y
    THEN delete_array([S EXCEPT !.buf[x] = S.buf[y]], S.buf[x].data)
    ELSE S

\* (a faulty variant: the elements are copied to a new block and the source
\* is cleared)
assign_move_copies(S, x, y) ==
    IF x # y
    THEN LET n  == S.buf[y].capacity
             p  == IF n > 0 THEN NewId(S.heap) ELSE 0
             h1 == IF p # 0 THEN new_array(S.heap, p, n) ELSE S.heap
             h2 == IF p # 0
                   THEN std_copy(h1, PtrSrc(S.buf[y].data, 0), n, p, 0, FALSE, <<>>)
                   ELSE h1
             S1 == [S EXCEPT !.heap = h2, !.buf[x] = [S.buf[y] EXCEPT !.data = p]]
         IN  clear(delete_array(S1, S.buf[x].data), y)
    ELSE S

\* void assign(buffer&& object) noexcept   (the same text in both files)
assign_move(S, x, y) ==
    IF x # y
    THEN clear([S EXCEPT !.buf[x] = S.buf[y], !.buf[y] = S.buf[x]], y)
    ELSE S

\* (a faulty variant: the copy takes the pointer of its source)
hpp_assign_copy_shallow(S, x, y, nd) ==
    IF x # y
    THEN delete_array([S EXCEPT !.buf[x] = S.buf[y]], S.buf[x].data)
    ELSE S

\* (a faulty variant: no test for the object itself)
hpp_assign_copy_unguarded(S, x, y, nd) ==
    hpp_assign3(S, x, PtrSrc(S.buf[y].data, 0), S.buf[y].size, S.buf[y].capacity, nd)

\* void assign(const buffer& object)
hpp_assign_copy(S, x, y, nd) ==
    IF x # y
    THEN hpp_assign3(S, x, PtrSrc(S.buf[y].data, 0), S.buf[y].size,
                     S.buf[y].capacity, nd)
    ELSE S

\* (a faulty variant: the index one past the live elements is let through)
at_past_end(S, x, index) ==
    IF index > S.buf[x].size THEN [S EXCEPT !.err = "out_of_range"]
    ELSE [S EXCEPT !.ret = Rd(S.heap, PtrSrc(S.buf[x].data, 0), index, <<>>)]

\* T at(size_t index) const, T& at(size_t index)   (both files)
at(S, x, index) ==
    IF index >= S.buf[x].size THEN [S EXCEPT !.err = "out_of_range"]
    ELSE [S EXCEPT !.ret = Rd(S.heap, PtrSrc(S.buf[x].data, 0), index, <<>>)]

\* T first() const: at(0)
first(S, x) == at(S, x, 0)

\* T last() const: at(size() - 1), the subtraction in size_t
last_of(S, x) == at(S, x, (S.buf[x].size - 1) % S.mod)

\* T& at(size_t index), written through: a.at(index) = v
at_write(S, x, index, v) ==
    IF index >= S.buf[x].size THEN [S EXCEPT !.err = "out_of_range"]
    ELSE [S EXCEPT !.heap = Wr(S.heap, S.buf[x].data, index, v)]

\* bool operator==(const buffer<T>& a, const buffer<T>& b)
equal(S, x, y) ==
    /\ S.buf[x].size = S.buf[y].size
    /\ Content(S.heap, S.buf[x]) = Content(S.heap, S.buf[y])

\* (a faulty variant: the other buffer takes this one's block and nothing
\* comes back)
swap_one_way(S, x, y) == assign_move(S, y, x)

\* void swap(buffer& object) noexcept   (the same text in both files):
\* buffer tmp(std::move(object)); object = std::move(*this);
\* *this = std::move(tmp); then ~tmp
swap(S, x, y) ==
    LET S0 == [S EXCEPT !.buf = S.buf @@ ("tmp" :> EmptyBuf)]
        S1 == assign_move(S0, "tmp", y)
        S2 == assign_move(S1, y, x)
        S3 == assign_move(S2, x, "tmp")
        S4 == clear(S3, "tmp")
    IN  [S4 EXCEPT !.buf = [n \in DOMAIN S.buf |-> S4.buf[n]]]

\* ---- Source/buffer.h ----------------------------------------------------
\* void assign(const T* data, size_t size, size_t capacity)
h_assign3(S, x, d, size, cap0, nd) ==
    LET capacity == IF size > cap0 THEN size ELSE cap0
    IN  IF capacity > 0 /\ nd.fail THEN [S EXCEPT !.err = "bad_alloc"]
        ELSE LET tmp == IF capacity > 0 THEN NewId(S.heap) ELSE 0
                 h1  == IF tmp # 0 THEN new_array(S.heap, tmp, capacity) ELSE S.heap
                 cp  == tmp # 0 /\ d.kind # "null" /\ size > 0
                 h2  == IF cp THEN std_copy(h1, d, size, tmp, 0, nd.mm, nd.junk) ELSE h1
                 S2  == [S EXCEPT !.heap = h2,
                                  !.uaf = S.uaf \/ (cp /\ ReadsDead(h1, d, size))]
                 S3  == delete_array(S2, S.buf[x].data)
             IN  [S3 EXCEPT !.buf[x] = [data     |-> tmp,
                                        size     |-> IF tmp # 0 THEN size ELSE 0,
                                        capacity |-> IF tmp # 0 THEN capacity ELSE 0]]

\* void assign(const T* data, size_t size)
h_assign2(S, x, d, size, nd) == h_assign3(S, x, d, size, size, nd)

\* (a faulty variant: the live elements are not carried over)
h_assign_cap_drops(S, x, capacity, nd) ==
    IF capacity > 0 /\ nd.fail THEN [S EXCEPT !.err = "bad_alloc"]
    ELSE LET tmp == IF capacity > 0 THEN NewId(S.heap) ELSE 0
             h1  == IF tmp # 0 THEN new_array(S.heap, tmp, capacity) ELSE S.heap
             S3  == delete_array([S EXCEPT !.heap = h1], S.buf[x].data)
         IN  [S3 EXCEPT !.buf[x] = [data     |-> tmp,
                                    size     |-> 0,
                                    capacity |-> IF tmp # 0 THEN capacity ELSE 0]]

\* void assign(size_t capacity)
\* assign(capacity) that allocates the new block and leaves the old elements behind
h_assign_cap_forgets(S, x, capacity, nd) ==
    LET b    == S.buf[x]
        size == IF capacity > b.size THEN b.size ELSE capacity
    IN  IF capacity > 0 /\ nd.fail THEN [S EXCEPT !.err = "bad_alloc"]
        ELSE LET tmp == IF capacity > 0 THEN NewId(S.heap) ELSE 0
                 h1  == IF tmp # 0 THEN new_array(S.heap, tmp, capacity) ELSE S.heap
                 S3  == delete_array([S EXCEPT !.heap = h1], b.data)
             IN  [S3 EXCEPT !.buf[x] = [data     |-> tmp,
                                        size     |-> IF tmp # 0 THEN size ELSE 0,
                                        capacity |-> IF tmp # 0 THEN capacity ELSE 0]]

h_assign_cap(S, x, capacity, nd) ==
    LET b    == S.buf[x]
        size == IF capacity > b.size THEN b.size ELSE capacity
    IN  IF capacity > 0 /\ nd.fail THEN [S EXCEPT !.err = "bad_alloc"]
        ELSE LET tmp == IF capacity > 0 THEN NewId(S.heap) ELSE 0
                 h1  == IF tmp # 0 THEN new_array(S.heap, tmp, capacity) ELSE S.heap
                 cp  == b.data # 0 /\ tmp # 0 /\ size > 0
                 h2  == IF cp THEN std_copy(h1, PtrSrc(b.data, 0), size, tmp, 0,
                                            nd.mm, nd.junk)
                        ELSE h1
                 S3  == delete_array([S EXCEPT !.heap = h2], b.data)
             IN  [S3 EXCEPT !.buf[x] = [data     |-> tmp,
                                        size     |-> IF tmp # 0 THEN size ELSE 0,
                                        capacity |-> IF tmp # 0 THEN capacity ELSE 0]]

\* (a faulty variant: the copy is given the size as its capacity)
h_assign_copy_fits(S, x, y, nd) ==
    IF x # y
    THEN h_assign2(S, x, PtrSrc(S.buf[y].data, 0), S.buf[y].size, nd)
    ELSE S

\* void assign(const buffer& other)
h_assign_copy(S, x, y, nd) ==
    IF x # y
    THEN h_assign3(S, x, PtrSrc(S.buf[y].data, 0), S.buf[y].size,
                   S.buf[y].capacity, nd)
    ELSE S

\* void append(const T* data, size_t size)
h_append(S, x, d, size, nd) ==
    LET b        == S.buf[x]
        capacity == SizeAdd(S, size, b.size)
        exceeds  == capacity > b.capacity
    IN  IF exceeds /\ nd.fail THEN [S EXCEPT !.err = "bad_alloc"]
        ELSE LET tmp == IF exceeds THEN NewId(S.heap) ELSE b.data
                 h1  == IF exceeds THEN new_array(S.heap, tmp, capacity) ELSE S.heap
                 c1  == exceeds /\ tmp # 0 /\ b.data # 0 /\ b.size > 0
                 h2  == IF c1 THEN std_copy(h1, PtrSrc(b.data, 0), b.size, tmp, 0,
                                            nd.mm, nd.junk)
                        ELSE h1
                 c2  == tmp # 0 /\ d.kind # "null" /\ size > 0
                 h3  == IF c2 THEN std_copy(h2, d, size, tmp, b.size, nd.mm, nd.junk)
                        ELSE h2
                 S3  == [S EXCEPT !.heap = h3,
                                  !.uaf = S.uaf \/ (c2 /\ ReadsDead(h2, d, size)),
                                  !.oob = S.oob \/ (c2 /\ WritesOut(h2, tmp, b.size, size))]
                 S4  == IF exceeds
                        THEN [delete_array(S3, b.data) EXCEPT !.buf[x].data = tmp]
                        ELSE S3
             IN  [S4 EXCEPT !.buf[x].size = SizeAdd(S, size, b.size),
                            !.buf[x].capacity = IF exceeds THEN capacity ELSE b.capacity]

\* (a faulty variant: the source is not cleared)
h_append_move_keeps_source(S, x, y, nd) ==
    h_append(S, x, PtrSrc(S.buf[y].data, 0), S.buf[y].size, nd)

\* void append(buffer&& other)
h_append_move(S, x, y, nd) ==
    LET S1 == h_append(S, x, PtrSrc(S.buf[y].data, 0), S.buf[y].size, nd)
    IN  IF S1.err # "none" THEN S1 ELSE clear(S1, y)

\* ---- the state machine ---------------------------------------------------
NoCall == [op |-> "none", err |-> "none", uaf |-> FALSE, dfree |-> FALSE, oob |-> FALSE]

Call(cf, op, R) ==
    [op |-> IF cf.ops THEN op ELSE "call",
     err |-> R.err, uaf |-> R.uaf, dfree |-> R.dfree, oob |-> R.oob]

Init ==
    /\ variant \in {"hpp", "h"}
    /\ heap = [p \in Blocks |-> DeadBlock]
    /\ buf = [x \in Bufs |-> EmptyBuf]
    /\ raw = 0
    /\ last = NoCall

\* sequences over vs of length lo..hi
SeqsOf(vs, lo, hi) == UNION {[1..n -> vs] : n \in lo..hi}

\* the (pointer, length) pairs a caller passes as (const T* data, size_t size):
\* nullptr with any length, an array of its own (a caller array, an
\* initializer list, &value) ...
ExtSrcs(cf) ==
    (IF cf.nulls THEN {<<NullSrc, n>> : n \in 0..cf.ms} ELSE {})
    \cup {<<ExtSrc(s), Len(s)>> : s \in SeqsOf(cf.vals, 0, cf.ms)}

\* ... or a range of the buffer's own live elements (a.data() + o, &a[o])
OwnSrcs(cf, b) ==
    IF ~cf.own THEN {} ELSE
    {<<PtrSrc(b.data, t[1]), t[2]>> :
        t \in {u \in (0..(b.size - 1)) \X (1..min(cf.ms, b.size)) : u[1] + u[2] <= b.size}}

Srcs(cf, b) == ExtSrcs(cf) \cup OwnSrcs(cf, b)

\* std::copy is the element loop or memmove; the two differ only when source
\* and destination lie in one block, which only insert can bring about
Mm(b, d) == IF d.kind = "blk" /\ d.blk = b.data THEN BOOLEAN ELSE {FALSE}

\* what a read of dead memory may return: any element
Junk(cf, R0, n) == IF R0.uaf THEN [1..n -> cf.vals \cup {DefaultT}] ELSE {<<>>}
Nd(fail, mm, junk) == [fail |-> fail, mm |-> mm, junk |-> junk]

\* the buffer.hpp or the buffer.h text of a member both files have
assign3(S, x, d, size, capacity, nd) ==
    IF variant = "hpp" THEN hpp_assign3(S, x, d, size, capacity, nd)
    ELSE h_assign3(S, x, d, size, capacity, nd)
assign2(S, x, d, size, nd) ==
    IF variant = "hpp" THEN hpp_assign2(S, x, d, size, nd)
    ELSE h_assign2(S, x, d, size, nd)
assign_cap(S, x, capacity, nd) ==
    IF variant = "hpp" THEN hpp_assign_cap(S, x, capacity, nd)
    ELSE h_assign_cap(S, x, capacity, nd)
assign_copy(S, x, y, nd) ==
    IF variant = "hpp" THEN hpp_assign_copy(S, x, y, nd)
    ELSE h_assign_copy(S, x, y, nd)
append(S, x, d, size, nd) ==
    IF variant = "hpp" THEN hpp_append(S, x, d, size, nd)
    ELSE h_append(S, x, d, size, nd)

Commit(R, c) ==
    /\ heap' = R.heap
    /\ buf' = R.buf
    /\ last' = c
    /\ UNCHANGED variant

\* a.assign(data, size, capacity), buffer(data, size, capacity)
AssignData(cf, x) ==
    \E sl \in Srcs(cf, buf[x]), C \in 0..cf.mc, fail \in cf.fails :
      /\ LET R == assign3(Ctx(heap, buf), x, sl[1], sl[2], C, Nd(fail, FALSE, <<>>))
         IN  Commit(R, Call(cf, "assign3", R))
      /\ UNCHANGED raw

\* a.assign(data, size), a.assign({..}), a = {..}, buffer(data, size), buffer({..})
AssignArray(cf, x) ==
    \E sl \in Srcs(cf, buf[x]), fail \in cf.fails :
      /\ LET R == assign2(Ctx(heap, buf), x, sl[1], sl[2], Nd(fail, FALSE, <<>>))
         IN  Commit(R, Call(cf, "assign2", R))
      /\ UNCHANGED raw

\* a = {..}, buffer a{..} with the given list
AssignList(cf, x, s) ==
    /\ LET R == assign2(Ctx(heap, buf), x, ExtSrc(s), Len(s), Nd(FALSE, FALSE, <<>>))
       IN  Commit(R, Call(cf, "assign2", R))
    /\ UNCHANGED raw

\* a.append({..}) with the given list
AppendList(cf, x, s) ==
    /\ buf[x].size + Len(s) <= cf.mc
    /\ LET R == append(Ctx(heap, buf), x, ExtSrc(s), Len(s), Nd(FALSE, FALSE, <<>>))
       IN  Commit(R, Call(cf, "append", R))
    /\ UNCHANGED raw

\* a.assign(capacity), buffer(capacity)
AssignCap(cf, x) ==
    \E C \in 0..cf.mc, fail \in cf.fails :
      /\ LET R == assign_cap(Ctx(heap, buf), x, C, Nd(fail, FALSE, <<>>))
         IN  Commit(R, Call(cf, "assign_cap", R))
      /\ UNCHANGED raw

\* a.assign(b), a = b, buffer(b)
AssignCopy(cf, x) ==
    \E y \in cf.bufs, fail \in cf.fails :
      /\ LET R == assign_copy(Ctx(heap, buf), x, y, Nd(fail, FALSE, <<>>))
         IN  Commit(R, Call(cf, IF y = x THEN "assign_copy_self" ELSE "assign_copy", R))
      /\ UNCHANGED raw

\* a.assign(std::move(b)), a = std::move(b), buffer(std::move(b))
AssignMove(cf, x) ==
    \E y \in cf.bufs :
      /\ LET R == assign_move(Ctx(heap, buf), x, y)
         IN  Commit(R, Call(cf, IF y = x THEN "assign_move_self" ELSE "assign_move", R))
      /\ UNCHANGED raw

\* the arguments of insert the machine cf passes to buffer x: the result fits
InsertArgs(cf, x) ==
    {<<sl, P>> \in Srcs(cf, buf[x]) \X (0..(buf[x].size + 1)) :
        sl[2] + buf[x].size <= cf.mc}

\* a.insert(data, size, position), a.insert({..}, position), a.insert(value, position)
Insert(cf, x) ==
    /\ variant = "hpp"
    /\ \E a \in InsertArgs(cf, x), fail \in cf.fails :
       \E mm \in Mm(buf[x], a[1][1]) :
         LET R0 == hpp_insert(Ctx(heap, buf), x, a[1][1], a[1][2], a[2], Nd(fail, mm, <<>>))
         IN  \E junk \in Junk(cf, R0, a[1][2]) :
               LET R == hpp_insert(Ctx(heap, buf), x, a[1][1], a[1][2], a[2],
                                   Nd(fail, mm, junk))
               IN  Commit(R, Call(cf, "insert", R))
    /\ UNCHANGED raw

\* a.insert(b, position), b possibly a itself
InsertBuf(cf, x) ==
    /\ variant = "hpp"
    /\ \E y \in cf.bufs, P \in 0..(buf[x].size + 1), fail \in cf.fails :
       \E mm \in Mm(buf[x], PtrSrc(buf[y].data, 0)) :
         /\ buf[y].size + buf[x].size <= cf.mc
         /\ LET d  == PtrSrc(buf[y].data, 0)
                n  == buf[y].size
                R0 == hpp_insert(Ctx(heap, buf), x, d, n, P, Nd(fail, mm, <<>>))
            IN  \E junk \in Junk(cf, R0, n) :
                  LET R == hpp_insert(Ctx(heap, buf), x, d, n, P, Nd(fail, mm, junk))
                  IN  Commit(R, Call(cf, IF y = x THEN "insert_self" ELSE "insert_buf", R))
    /\ UNCHANGED raw

\* the arguments of append the machine cf passes to buffer x: the result fits
AppendArgs(cf, x) == {sl \in Srcs(cf, buf[x]) : sl[2] + buf[x].size <= cf.mc}

\* a.append(data, size), a.append({..}), a.append(value)
AppendData(cf, x) ==
    /\ \E sl \in AppendArgs(cf, x), fail \in cf.fails :
         LET R0 == append(Ctx(heap, buf), x, sl[1], sl[2], Nd(fail, FALSE, <<>>))
         IN  \E junk \in Junk(cf, R0, sl[2]) :
               LET R == append(Ctx(heap, buf), x, sl[1], sl[2], Nd(fail, FALSE, junk))
               IN  Commit(R, Call(cf, "append", R))
    /\ UNCHANGED raw

\* a.append(b), b possibly a itself
AppendBuf(cf, x) ==
    /\ \E y \in cf.bufs, fail \in cf.fails :
         /\ buf[y].size + buf[x].size <= cf.mc
         /\ LET d  == PtrSrc(buf[y].data, 0)
                n  == buf[y].size
                R0 == append(Ctx(heap, buf), x, d, n, Nd(fail, FALSE, <<>>))
            IN  \E junk \in Junk(cf, R0, n) :
                  LET R == append(Ctx(heap, buf), x, d, n, Nd(fail, FALSE, junk))
                  IN  Commit(R, Call(cf, IF y = x THEN "append_self" ELSE "append_buf", R))
    /\ UNCHANGED raw

\* a.append(std::move(b)), buffer.h only
AppendMove(cf, x) ==
    /\ variant = "h"
    /\ \E y \in cf.bufs \ {x}, fail \in cf.fails :
         /\ buf[y].size + buf[x].size <= cf.mc
         /\ LET R == h_append_move(Ctx(heap, buf), x, y, Nd(fail, FALSE, <<>>))
            IN  Commit(R, Call(cf, "append_move", R))
    /\ UNCHANGED raw

\* a.shrink_to_fit()
ShrinkToFit(cf, x) ==
    /\ variant = "hpp"
    /\ \E fail \in cf.fails :
         LET R == hpp_shrink_to_fit(Ctx(heap, buf), x, Nd(fail, FALSE, <<>>))
         IN  Commit(R, Call(cf, "shrink_to_fit", R))
    /\ UNCHANGED raw

\* a.clear()
Clear(cf, x) ==
    /\ LET R == clear(Ctx(heap, buf), x)
       IN  Commit(R, Call(cf, "clear", R))
    /\ UNCHANGED raw

\* ~buffer(); the name then stands for a default-constructed buffer
Destroy(cf, x) ==
    /\ LET R == clear(Ctx(heap, buf), x)
       IN  Commit(R, Call(cf, "destroy", R))
    /\ UNCHANGED raw

\* a.swap(b), swap(a, b)
Swap(cf, x) ==
    /\ \E y \in cf.bufs :
         LET R == swap(Ctx(heap, buf), x, y)
         IN  Commit(R, Call(cf, "swap", R))
    /\ UNCHANGED raw

\* a.at(index), a.first(), a.last()
At(cf, x) ==
    /\ \E index \in 0..(buf[x].size + 1) :
         LET R == at(Ctx(heap, buf), x, index)
         IN  Commit(R, Call(cf, "at", R))
    /\ UNCHANGED raw

First(cf, x) ==
    /\ LET R == first(Ctx(heap, buf), x)
       IN  Commit(R, Call(cf, "first", R))
    /\ UNCHANGED raw

Last(cf, x) ==
    /\ LET R == last_of(Ctx(heap, buf), x)
       IN  Commit(R, Call(cf, "last", R))
    /\ UNCHANGED raw

\* a.at(index) = v
SetAt(cf, x) ==
    /\ \E index \in 0..buf[x].size, v \in Elems :
         LET R == at_write(Ctx(heap, buf), x, index, v)
         IN  Commit(R, Call(cf, "set_at", R))
    /\ UNCHANGED raw

\* raw = a.release(): the caller now owns the block
Release(cf, x) ==
    /\ raw = 0
    /\ LET R == release(Ctx(heap, buf), x)
       IN  /\ Commit(R, Call(cf, "release", R))
           /\ raw' = R.ret

\* the (pointer, size, capacity) a caller passes to acquire: nullptr or the
\* block it owns, with the block's allocated length as the capacity
AcquireArgs(cf) ==
    {t \in {raw, 0} \X (0..(cf.mc + 1)) \X (0..cf.mc) :
        IF t[1] # 0 THEN t[3] = Len(heap[t[1]].cells) ELSE t[3] \in {0, cf.mc}}

\* a.acquire(raw, size, capacity)
Acquire(cf, x) ==
    /\ variant = "hpp"
    /\ \E t \in AcquireArgs(cf) :
         LET R == hpp_acquire(Ctx(heap, buf), x, t[1], t[2], t[3])
         IN  /\ Commit(R, Call(cf, "acquire", R))
             /\ raw' = IF R.err = "none" /\ t[1] # 0 THEN 0 ELSE raw

\* raw = new T[n], filled by the caller
CallerNew(cf) ==
    /\ raw = 0
    /\ \E s \in SeqsOf(cf.vals, 0, cf.mc) :
         LET p == NewId(heap)
         IN  /\ heap' = [heap EXCEPT ![p] = [live |-> TRUE, cells |-> s]]
             /\ raw' = p
             /\ last' = Call(cf, "caller_new", Ctx(heap, buf))
    /\ UNCHANGED <<variant, buf>>

\* delete[] raw
CallerDelete(cf) ==
    /\ raw # 0
    /\ LET R == delete_array(Ctx(heap, buf), raw)
       IN  Commit(R, Call(cf, "caller_delete", R))
    /\ raw' = 0

\* the two-buffer machine: buffers a and b and a caller with a raw pointer
Next ==
    \/ \E x \in CfgTwo.bufs :
         \/ AssignData(CfgTwo, x)
         \/ AssignArray(CfgTwo, x)
         \/ AssignCap(CfgTwo, x)
         \/ AssignCopy(CfgTwo, x)
         \/ AssignMove(CfgTwo, x)
         \/ Insert(CfgTwo, x)
         \/ InsertBuf(CfgTwo, x)
         \/ AppendData(CfgTwo, x)
         \/ AppendBuf(CfgTwo, x)
         \/ AppendMove(CfgTwo, x)
         \/ ShrinkToFit(CfgTwo, x)
         \/ Clear(CfgTwo, x)
         \/ Destroy(CfgTwo, x)
         \/ Swap(CfgTwo, x)
         \/ Release(CfgTwo, x)
         \/ Acquire(CfgTwo, x)
    \/ CallerNew(CfgTwo)
    \/ CallerDelete(CfgTwo)

Spec == Init /\ [][Next]_vars

\* the one-buffer machine: every member that writes elements, called on
\* buffer a with distinguishable elements; b is const, built as buffer b{1, 2}
InitOne ==
    /\ variant \in {"hpp", "h"}
    /\ LET S0 == Ctx([p \in Blocks |-> DeadBlock], [x \in Bufs |-> EmptyBuf])
           R  == assign2(S0, "b", ExtSrc(<<1, 2>>), 2, Nd(FALSE, FALSE, <<>>))
       IN  heap = R.heap /\ buf = R.buf
    /\ raw = 0
    /\ last = NoCall

NextOne ==
    \/ AssignArray(CfgOne, "a")
    \/ AssignCopy(CfgOne, "a")
    \/ AssignCap(CfgOne, "a")
    \/ Insert(CfgOne, "a")
    \/ InsertBuf(CfgOne, "a")
    \/ AppendData(CfgOne, "a")
    \/ AppendBuf(CfgOne, "a")
    \/ ShrinkToFit(CfgOne, "a")
    \/ Clear(CfgOne, "a")
    \/ At(CfgOne, "a")
    \/ First(CfgOne, "a")
    \/ Last(CfgOne, "a")

SpecOne == InitOne /\ [][NextOne]_vars

\* the raw-block machine: buffer a and a caller that allocates, releases,
\* acquires and deletes raw blocks
NextAcq ==
    \/ AssignArray(CfgAcq, "a")
    \/ AssignCap(CfgAcq, "a")
    \/ Clear(CfgAcq, "a")
    \/ Release(CfgAcq, "a")
    \/ Acquire(CfgAcq, "a")
    \/ CallerNew(CfgAcq)
    \/ CallerDelete(CfgAcq)

SpecAcq == Init /\ [][NextAcq]_vars

\* the pair machine: buffers a and b, assigned from arrays of ones, copied,
\* moved, swapped and written element by element
NextPair ==
    \E x \in CfgPair.bufs :
      \/ AssignData(CfgPair, x)
      \/ AssignCap(CfgPair, x)
      \/ AssignCopy(CfgPair, x)
      \/ AssignMove(CfgPair, x)
      \/ AppendMove(CfgPair, x)
      \/ SetAt(CfgPair, x)
      \/ Swap(CfgPair, x)
      \/ Clear(CfgPair, x)

SpecPair == Init /\ [][NextPair]_vars

\* the scenario machine: the buffer of the reserved-capacity test, given new
\* capacities and appended to
InitScn ==
    /\ variant \in {"hpp", "h"}
    /\ LET S0 == Ctx([p \in Blocks |-> DeadBlock], [x \in Bufs |-> EmptyBuf])
           R  == assign2(S0, "a", ExtSrc(ScnList), Len(ScnList), Nd(FALSE, FALSE, <<>>))
       IN  heap = R.heap /\ buf = R.buf
    /\ raw = 0
    /\ last = NoCall

NextScn ==
    \/ AssignList(CfgScn, "a", ScnList)
    \/ AssignCap(CfgScn, "a")
    \/ AppendList(CfgScn, "a", ScnTail)
    \/ Clear(CfgScn, "a")

SpecScn == InitScn /\ [][NextScn]_vars

\* the two-header machine: buffer a is a buffer of the header named by variant,
\* buffer b one of the other header, and every step makes the same call on both
HeaderOf(x) == IF x = "a" THEN variant ELSE IF variant = "hpp" THEN "h" ELSE "hpp"

in_assign3(S, x, d, size, capacity) ==
    IF HeaderOf(x) = "hpp"
    THEN hpp_assign3(S, x, d, size, capacity, Nd(FALSE, FALSE, <<>>))
    ELSE h_assign3(S, x, d, size, capacity, Nd(FALSE, FALSE, <<>>))
in_assign_cap(S, x, capacity) ==
    IF HeaderOf(x) = "hpp"
    THEN hpp_assign_cap(S, x, capacity, Nd(FALSE, FALSE, <<>>))
    ELSE h_assign_cap(S, x, capacity, Nd(FALSE, FALSE, <<>>))
in_append(S, x, d, size) ==
    IF HeaderOf(x) = "hpp"
    THEN hpp_append(S, x, d, size, Nd(FALSE, FALSE, <<>>))
    ELSE h_append(S, x, d, size, Nd(FALSE, FALSE, <<>>))

\* buffer t(data, size, capacity); of x's header
temp_new(S, x, d, size, capacity) ==
    LET T == [S EXCEPT !.buf = S.buf @@ ("t" :> EmptyBuf)]
    IN  IF HeaderOf(x) = "hpp"
        THEN hpp_assign3(T, "t", d, size, capacity, Nd(FALSE, FALSE, <<>>))
        ELSE h_assign3(T, "t", d, size, capacity, Nd(FALSE, FALSE, <<>>))

\* ~t at the end of the scope
temp_delete(S) ==
    LET S2 == clear(S, "t")
    IN  [S2 EXCEPT !.buf = [n \in DOMAIN S.buf \ {"t"} |-> S2.buf[n]]]

\* buffer t(data, size, capacity); x = t;
in_copy_from(S, x, d, size, capacity) ==
    LET T == temp_new(S, x, d, size, capacity)
    IN  temp_delete(IF HeaderOf(x) = "hpp"
                    THEN hpp_assign_copy(T, x, "t", Nd(FALSE, FALSE, <<>>))
                    ELSE h_assign_copy(T, x, "t", Nd(FALSE, FALSE, <<>>)))

\* x = buffer(data, size, capacity);
in_move_from(S, x, d, size, capacity) ==
    temp_delete(assign_move(temp_new(S, x, d, size, capacity), x, "t"))

\* buffer t(data, size, capacity); x.swap(t);
in_swap_with(S, x, d, size, capacity) ==
    temp_delete(swap(temp_new(S, x, d, size, capacity), x, "t"))

\* delete[] x.release();
in_release(S, x) == LET R == release(S, x) IN delete_array(R, R.ret)

\* the (data, size, capacity) of a construction with size <= capacity
DataArgs(cf) ==
    {t \in {<<sl[1], sl[2], C>> : sl \in ExtSrcs(cf), C \in 0..cf.mc} : t[2] <= t[3]}

BothAssignCap(cf) ==
    /\ \E C \in 0..cf.mc :
         LET R == in_assign_cap(in_assign_cap(Ctx(heap, buf), "a", C), "b", C)
         IN  Commit(R, Call(cf, "assign_cap", R))
    /\ UNCHANGED raw

BothAssignData(cf) ==
    /\ \E t \in DataArgs(cf) :
         LET R == in_assign3(in_assign3(Ctx(heap, buf), "a", t[1], t[2], t[3]),
                             "b", t[1], t[2], t[3])
         IN  Commit(R, Call(cf, "assign_data", R))
    /\ UNCHANGED raw

BothCopyFrom(cf) ==
    /\ \E t \in DataArgs(cf) :
         LET R == in_copy_from(in_copy_from(Ctx(heap, buf), "a", t[1], t[2], t[3]),
                               "b", t[1], t[2], t[3])
         IN  Commit(R, Call(cf, "assign_copy", R))
    /\ UNCHANGED raw

BothMoveFrom(cf) ==
    /\ \E t \in DataArgs(cf) :
         LET R == in_move_from(in_move_from(Ctx(heap, buf), "a", t[1], t[2], t[3]),
                               "b", t[1], t[2], t[3])
         IN  Commit(R, Call(cf, "assign_move", R))
    /\ UNCHANGED raw

BothSwapWith(cf) ==
    /\ \E t \in DataArgs(cf) :
         LET R == in_swap_with(in_swap_with(Ctx(heap, buf), "a", t[1], t[2], t[3]),
                               "b", t[1], t[2], t[3])
         IN  Commit(R, Call(cf, "swap", R))
    /\ UNCHANGED raw

\* the sizes of both buffers bound the source, so that no block outgrows cf.mc
BothAppend(cf) ==
    /\ \E sl \in ExtSrcs(cf) :
         /\ sl[2] + buf["a"].size <= cf.mc
         /\ sl[2] + buf["b"].size <= cf.mc
         /\ LET R == in_append(in_append(Ctx(heap, buf), "a", sl[1], sl[2]),
                               "b", sl[1], sl[2])
            IN  Commit(R, Call(cf, "append", R))
    /\ UNCHANGED raw

BothClear(cf) ==
    /\ LET R == clear(clear(Ctx(heap, buf), "a"), "b")
       IN  Commit(R, Call(cf, "clear", R))
    /\ UNCHANGED raw

BothRelease(cf) ==
    /\ LET R == in_release(in_release(Ctx(heap, buf), "a"), "b")
       IN  Commit(R, Call(cf, "release", R))
    /\ UNCHANGED raw

NextBoth ==
    \/ BothAssignCap(CfgBoth)
    \/ BothAssignData(CfgBoth)
    \/ BothCopyFrom(CfgBoth)
    \/ BothMoveFrom(CfgBoth)
    \/ BothSwapWith(CfgBoth)
    \/ BothAppend(CfgBoth)
    \/ BothClear(CfgBoth)
    \/ BothRelease(CfgBoth)

SpecBoth == Init /\ [][NextBoth]_vars

\* ---- the claims -----------------------------------------------------------

\* C1: after any sequence of buffer operations, size <= capacity holds for
\* every buffer.
SizeWithinCapacity == \A x \in Bufs : buf[x].size <= buf[x].capacity

\* a full buffer beside one with spare capacity, after some call
SizeWithinCapacityWitness ==
    /\ last.op = "call"
    /\ buf["a"].size = MaxCap /\ buf["a"].capacity = MaxCap
    /\ buf["b"].size = 1 /\ buf["b"].capacity = MaxCap

\* C2: a buffer is either Empty (data null, size 0, capacity 0) or Allocated
\* (data non-null, capacity > 0), so capacity is 0 exactly when data is null;
\* a moved-from, cleared or released buffer is Empty, the state of a
\* default-constructed buffer.
EmptyOrAllocated ==
    /\ \A x \in Bufs :
         /\ buf[x] = EmptyBuf \/ (buf[x].data # 0 /\ buf[x].capacity > 0)
         /\ clear(Ctx(heap, buf), x).buf[x] = EmptyBuf
         /\ release(Ctx(heap, buf), x).buf[x] = EmptyBuf
         /\ \A y \in Bufs \ {x} : assign_move(Ctx(heap, buf), x, y).buf[y] = EmptyBuf

\* one buffer Empty, the other Allocated with no live element, after some call
EmptyOrAllocatedWitness ==
    /\ last.op = "call"
    /\ buf["a"] = EmptyBuf
    /\ buf["b"].data # 0 /\ buf["b"].size = 0 /\ buf["b"].capacity > 0

\* C3: exclusive ownership. Every block allocated and not yet deallocated is
\* held by exactly one owner (one buffer's data pointer, or the caller's raw
\* pointer), no block is deallocated twice, and no pointer held by a buffer
\* or the caller refers to a deallocated block.
Owners(p) == {x \in Bufs : buf[x].data = p} \cup (IF raw = p THEN {"caller"} ELSE {})

ExclusiveOwnership ==
    /\ \A p \in Blocks : heap[p].live => Cardinality(Owners(p)) = 1
    /\ \A p \in Blocks : ~heap[p].live => Owners(p) = {}
    /\ ~last.dfree

\* a, b and the caller each own a block, and a fourth block was deallocated
ExclusiveOwnershipWitness ==
    /\ buf["a"].data # 0 /\ buf["b"].data # 0 /\ raw # 0
    /\ buf["a"].data # buf["b"].data
    /\ \E p \in Blocks : p < raw /\ ~heap[p].live

\* C4: strong exception safety. When the allocation of a mutating call (an
\* assign overload, append, insert, shrink_to_fit, copy assignment) fails,
\* std::bad_alloc reaches the caller and data pointer, size, capacity and
\* every block are what they were before the call.
AllocFailureLeavesState ==
    [][last'.err = "bad_alloc" => (heap' = heap /\ buf' = buf)]_vars

\* an insert into a buffer with live elements has thrown std::bad_alloc
AllocFailureWitness ==
    /\ last.op = "insert" /\ last.err = "bad_alloc"
    /\ buf["a"].size > 0 /\ buf["a"].size = buf["a"].capacity

\* c[0..P) followed by src followed by c[P..)
Spliced(c, src, P) == SubSeq(c, 1, P) \o src \o SubSeq(c, P + 1, Len(c))

\* the first n elements of a source, as the call finds them
SrcElems(h, d, n) == ReadAll(h, d, n, <<>>)

\* the sources of the one-buffer machine that do not alias a's block: arrays
\* of the caller and the elements of b
ForeignSrcs ==
    {sl \in ExtSrcs(CfgOne) : sl[1].kind = "ext" /\ sl[2] > 0}
    \cup {<<PtrSrc(buf["b"].data, 0), buf["b"].size>>}

\* C5: insert(data, L, P) of buffer.hpp with P <= size and a non-null source
\* of L > 0 elements outside the buffer's block leaves size = old size + L
\* and the content c[0..P), the L source elements, c[P..size), with or
\* without a reallocation.
InsertSplices ==
    variant = "hpp" =>
      \A sl \in ForeignSrcs, P \in 0..buf["a"].size, mm \in BOOLEAN :
        sl[2] + buf["a"].size <= MaxCapOne =>
          LET c == Content(heap, buf["a"])
              R == hpp_insert(Ctx(heap, buf), "a", sl[1], sl[2], P,
                              Nd(FALSE, mm, <<>>))
          IN  /\ R.err = "none"
              /\ R.buf["a"].size = buf["a"].size + sl[2]
              /\ Content(R.heap, R.buf["a"]) = Spliced(c, SrcElems(heap, sl[1], sl[2]), P)

\* an insert has put two elements between two others
InsertSplicesWitness ==
    /\ variant = "hpp" /\ last.op = "insert" /\ last.err = "none"
    /\ buf["a"].size = MaxCapOne
    /\ Content(heap, buf["a"])[1] = 1 /\ Content(heap, buf["a"])[2] = 2
    /\ Content(heap, buf["a"])[MaxCapOne] = 2

\* C6: insert(data, L, P) with P > size fails with std::invalid_argument and
\* changes neither data pointer, size, capacity nor any block.
InsertBeyondSizeRejected ==
    variant = "hpp" =>
      \A a \in InsertArgs(CfgOne, "a"), fail \in BOOLEAN :
        a[2] > buf["a"].size =>
          LET R == hpp_insert(Ctx(heap, buf), "a", a[1][1], a[1][2], a[2],
                              Nd(fail, FALSE, <<>>))
          IN  R.err = "invalid_argument" /\ R.heap = heap /\ R.buf = buf

\* an insert into a buffer with spare capacity was rejected
InsertBeyondSizeWitness ==
    /\ variant = "hpp" /\ last.op = "insert" /\ last.err = "invalid_argument"
    /\ buf["a"].size > 0 /\ buf["a"].size < buf["a"].capacity

\* C7: exact growth. append or insert of L elements to a buffer (size,
\* capacity) leaves capacity = max(capacity, size + L): exactly size + L when
\* that exceeds the capacity, and otherwise the same capacity and the same
\* block.
GrowsTo(R, n) ==
    LET b == buf["a"]
    IN  R.err = "none" =>
          /\ R.buf["a"].capacity = max(b.capacity, b.size + n)
          /\ b.size + n > b.capacity => R.buf["a"].capacity = b.size + n
          /\ b.size + n <= b.capacity =>
               R.buf["a"].capacity = b.capacity /\ R.buf["a"].data = b.data

ExactGrowth ==
    /\ \A sl \in AppendArgs(CfgOne, "a") :
         GrowsTo(append(Ctx(heap, buf), "a", sl[1], sl[2], Nd(FALSE, FALSE, <<>>)), sl[2])
    /\ variant = "hpp" =>
         \A a \in InsertArgs(CfgOne, "a") :
           GrowsTo(hpp_insert(Ctx(heap, buf), "a", a[1][1], a[1][2], a[2],
                              Nd(FALSE, FALSE, <<>>)), a[1][2])

\* an append has grown a buffer with live elements to exactly its new size
ExactGrowthWitness ==
    /\ last.op = "append" /\ last.err = "none"
    /\ buf["a"].size = MaxCapOne /\ buf["a"].capacity = MaxCapOne
    /\ Content(heap, buf["a"])[1] # Content(heap, buf["a"])[MaxCapOne]

\* C8: self-append is safe. a.append(a) on a non-empty buffer with content c
\* ends with size 2|c| and content c followed by c, and reads no element
\* from a deallocated block, also when it reallocates.
SelfAppendSafe ==
    [][(last'.op = "append_self" /\ last'.err = "none" /\ buf["a"].size > 0) =>
         /\ ~last'.uaf
         /\ buf'["a"].size = 2 * buf["a"].size
         /\ Content(heap', buf'["a"]) =
              Content(heap, buf["a"]) \o Content(heap, buf["a"])]_vars

\* C9: in-place insertion is overlap-safe. insert(data, L, P) of buffer.hpp
\* with capacity >= size + L, P < size and the source inside the buffer's
\* live elements leaves c[0..P), the source elements as they were at the
\* call, c[P..size).
InsertOverlapSafe ==
    variant = "hpp" =>
      \A sl \in OwnSrcs(CfgOne, buf["a"]), P \in 0..(buf["a"].size - 1), mm \in BOOLEAN :
        sl[2] + buf["a"].size <= buf["a"].capacity =>
          LET c == Content(heap, buf["a"])
              R == hpp_insert(Ctx(heap, buf), "a", sl[1], sl[2], P,
                              Nd(FALSE, mm, <<>>))
          IN  /\ R.err = "none"
              /\ Content(R.heap, R.buf["a"]) = Spliced(c, SrcElems(heap, sl[1], sl[2]), P)

\* C10: acquire(pointer, length, capacity) fails with std::invalid_argument
\* when pointer is null, length is 0 or length > capacity, and then the block
\* the buffer owns is not deallocated and data pointer, size, capacity and
\* every block are unchanged.
AcquireRejectsInvalid ==
    variant = "hpp" =>
      \A t \in AcquireArgs(CfgAcq) :
        (t[1] = 0 \/ t[2] = 0 \/ t[2] > t[3]) =>
          LET R == hpp_acquire(Ctx(heap, buf), "a", t[1], t[2], t[3])
          IN  R.err = "invalid_argument" /\ R.heap = heap /\ R.buf = buf

\* an acquire was rejected while the buffer and the caller each own a block
AcquireRejectsWitness ==
    /\ last.op = "acquire" /\ last.err = "invalid_argument"
    /\ buf["a"].data # 0 /\ raw # 0

\* the blocks that are live in h2 and were not in h1
Allocated(h1, h2) == {p \in Blocks : h2[p].live /\ ~h1[p].live}

\* C11: a successful acquire(pointer, length, capacity) deletes the block the
\* buffer owned before the call exactly once, allocates and copies nothing,
\* and leaves data pointer, size and capacity equal to the arguments and the
\* acquired block's elements as they were.
AcquireAdopts ==
    variant = "hpp" =>
      \A t \in AcquireArgs(CfgAcq) :
        (t[1] # 0 /\ t[2] > 0 /\ t[2] <= t[3]) =>
          LET R   == hpp_acquire(Ctx(heap, buf), "a", t[1], t[2], t[3])
              old == buf["a"].data
          IN  /\ R.err = "none" /\ ~R.dfree
              /\ R.buf["a"] = [data |-> t[1], size |-> t[2], capacity |-> t[3]]
              /\ R.heap[t[1]] = heap[t[1]]
              /\ old # 0 => heap[old].live /\ ~R.heap[old].live
              /\ \A p \in Blocks \ {old} : R.heap[p] = heap[p]
              /\ Allocated(heap, R.heap) = {}

\* buffer a owned block 1 when it acquired the caller's block 2
AcquireAdoptsWitness ==
    /\ last.op = "acquire" /\ last.err = "none" /\ raw = 0
    /\ buf["a"].data = 2 /\ ~heap[1].live
    /\ buf["a"].size = 1 /\ buf["a"].capacity = MaxCap

\* C12: release() returns the data pointer the buffer held (null for an
\* empty buffer), leaves the buffer empty, and neither deletes nor modifies
\* the returned block; a later clear() or destruction of the buffer deletes
\* nothing.
ReleaseHandsOver ==
    LET R == release(Ctx(heap, buf), "a")
        D == clear(R, "a")
    IN  /\ R.ret = buf["a"].data
        /\ R.buf["a"] = EmptyBuf
        /\ R.heap = heap
        /\ D.heap = heap /\ D.buf["a"] = EmptyBuf /\ ~D.dfree

\* the caller holds the live block, with its elements, that a released
ReleaseHandsOverWitness ==
    /\ last.op = "release" /\ raw # 0 /\ buf["a"] = EmptyBuf
    /\ heap[raw].live /\ heap[raw].cells = <<1, 2>>

\* p = a.release() followed by acquire(p, s, c) on the fresh buffer b
RoundTrip == hpp_acquire(release(Ctx(heap, buf), "a"), "b",
                         buf["a"].data, buf["a"].size, buf["a"].capacity)

\* C13 as amended: for every buffer with size s > 0, capacity c and content
\* x, p = release() followed by acquire(p, s, c) on a fresh buffer succeeds
\* and gives that buffer content x, size s and capacity c.
RoundTripNonEmpty ==
    (variant = "hpp" /\ buf["b"] = EmptyBuf /\ buf["a"].size > 0) =>
      /\ RoundTrip.err = "none"
      /\ RoundTrip.buf["b"] = buf["a"]
      /\ RoundTrip.buf["a"] = EmptyBuf
      /\ Content(RoundTrip.heap, RoundTrip.buf["b"]) = Content(heap, buf["a"])
      /\ RoundTrip.heap = heap

\* a released block with spare capacity was acquired again with its size
RoundTripWitness ==
    /\ last.op = "acquire" /\ last.err = "none" /\ raw = 0
    /\ buf["a"].size = 1 /\ buf["a"].capacity = MaxCap
    /\ Content(heap, buf["a"]) = <<2>> /\ buf["a"].data = 1

\* C13: the round trip as stated, for every buffer, the empty ones and the
\* ones with size 0 included.
RoundTripEveryBuffer ==
    (variant = "hpp" /\ buf["b"] = EmptyBuf) =>
      /\ RoundTrip.err = "none"
      /\ RoundTrip.buf["b"].size = buf["a"].size
      /\ RoundTrip.buf["b"].capacity = buf["a"].capacity
      /\ Content(RoundTrip.heap, RoundTrip.buf["b"]) = Content(heap, buf["a"])

\* C14: shrink_to_fit is exact and idempotent. After shrink_to_fit()
\* capacity = size and the first size elements are unchanged; a second call
\* changes neither data pointer, size, capacity nor any block; a buffer with
\* size 0 and capacity > 0 becomes empty.
ShrinkExact ==
    variant = "hpp" =>
      LET R1 == hpp_shrink_to_fit(Ctx(heap, buf), "a", Nd(FALSE, FALSE, <<>>))
          R2 == hpp_shrink_to_fit(R1, "a", Nd(FALSE, FALSE, <<>>))
      IN  /\ R1.err = "none" /\ ~R1.uaf /\ ~R1.dfree
          /\ R1.buf["a"].capacity = R1.buf["a"].size
          /\ R1.buf["a"].size = buf["a"].size
          /\ Content(R1.heap, R1.buf["a"]) = Content(heap, buf["a"])
          /\ R2.heap = R1.heap /\ R2.buf = R1.buf /\ R2.err = "none"
          /\ (buf["a"].size = 0 /\ buf["a"].capacity > 0) =>
               R1.buf["a"] = EmptyBuf /\ ~R1.heap[buf["a"].data].live

\* shrink_to_fit has moved two live elements from block 2 to a block of two
ShrinkExactWitness ==
    /\ variant = "hpp" /\ last.op = "shrink_to_fit" /\ last.err = "none"
    /\ buf["a"].data = 3 /\ ~heap[2].live
    /\ buf["a"].size = 2 /\ buf["a"].capacity = 2
    /\ Content(heap, buf["a"]) = <<2, 1>>

\* buffer y is in T what it was in S: pointer, size, capacity and block
Untouched(S, T, y) ==
    /\ T.buf[y] = S.buf[y]
    /\ S.buf[y].data # 0 => T.heap[S.buf[y].data] = S.heap[S.buf[y].data]

\* whatever one later call on buffer x does (an element write, an append, an
\* insert, an assign or a clear), buffer y stays what it was
MutationsLeave(S, x, y) ==
    LET nd == Nd(FALSE, FALSE, <<>>)
    IN  /\ \A i \in 0..(S.buf[x].size), v \in Elems :
             Untouched(S, at_write(S, x, i, v), y)
        /\ \A sl \in {e \in ExtSrcs(CfgPair) : e[2] <= 1} :
             /\ Untouched(S, append(S, x, sl[1], sl[2], nd), y)
             /\ Untouched(S, assign2(S, x, sl[1], sl[2], nd), y)
             /\ variant = "hpp" =>
                  \A P \in 0..(S.buf[x].size + 1) :
                    Untouched(S, hpp_insert(S, x, sl[1], sl[2], P, nd), y)
        /\ \A C \in 0..MaxCap : Untouched(S, assign_cap(S, x, C, nd), y)
        /\ Untouched(S, clear(S, x), y)

\* C15: a copy x of buffer y (copy constructor, copy assignment,
\* assign(const buffer&)) compares equal to y, owns a block of its own, and is
\* independent: a later element write, append, insert, assign or clear on
\* one of the two leaves size, capacity and content of the other unchanged.
CopyIndependent ==
    \A x \in Bufs, y \in Bufs :
      x # y =>
        LET R == assign_copy(Ctx(heap, buf), x, y, Nd(FALSE, FALSE, <<>>))
        IN  /\ R.err = "none" /\ ~R.uaf /\ ~R.dfree
            /\ equal(R, x, y)
            /\ Untouched(Ctx(heap, buf), R, y)
            /\ R.buf[x].data # 0 => R.buf[x].data # R.buf[y].data
            /\ MutationsLeave(R, x, y)
            /\ MutationsLeave(R, y, x)

\* b was copied into a: equal contents in two blocks
CopyIndependentWitness ==
    /\ last.op = "assign_copy" /\ last.err = "none"
    /\ buf["a"].data # 0 /\ buf["b"].data # 0 /\ buf["a"].data # buf["b"].data
    /\ Content(heap, buf["a"]) = <<1, 2>> /\ Content(heap, buf["b"]) = <<1, 2>>

\* C16: after x = move(y) with x a different object (move constructor, move
\* assignment, assign(buffer&&)) x has the data pointer, size, capacity and
\* content y had and y is empty; nothing is allocated and no element is
\* copied.
MoveTransfers ==
    \A x \in Bufs, y \in Bufs :
      x # y =>
        LET R == assign_move(Ctx(heap, buf), x, y)
        IN  /\ R.err = "none" /\ ~R.dfree
            /\ R.buf[x] = buf[y]
            /\ R.buf[y] = EmptyBuf
            /\ Content(R.heap, R.buf[x]) = Content(heap, buf[y])
            /\ buf[y].data # 0 => R.heap[buf[y].data] = heap[buf[y].data]
            /\ Allocated(heap, R.heap) = {}

\* a, which owned block 1, took block 2 with its spare slot from b
MoveTransfersWitness ==
    /\ last.op = "assign_move" /\ buf["b"] = EmptyBuf
    /\ buf["a"].data = 2 /\ ~heap[1].live
    /\ buf["a"].size = 1 /\ buf["a"].capacity = MaxCap
    /\ Content(heap, buf["a"]) = <<2>>

\* append(a, x) followed by append(a, y), and append(a, x \o y)
AppendTwice(x, y) ==
    append(append(Ctx(heap, buf), "a", ExtSrc(x), Len(x), Nd(FALSE, FALSE, <<>>)),
           "a", ExtSrc(y), Len(y), Nd(FALSE, FALSE, <<>>))
AppendOnce(x, y) ==
    append(Ctx(heap, buf), "a", ExtSrc(x \o y), Len(x) + Len(y), Nd(FALSE, FALSE, <<>>))

\* C17: append is associative with concatenation. For element sequences x
\* and y outside the buffer, append(a, x) followed by append(a, y) leaves the
\* size, content and capacity that append(a, x \o y) leaves from the same
\* start.
AppendAssociative ==
    \A x \in SeqsOf(Elems, 0, MaxSrc), y \in SeqsOf(Elems, 0, MaxSrc) :
      buf["a"].size + Len(x) + Len(y) <= MaxCapOne =>
        /\ AppendTwice(x, y).err = "none" /\ AppendOnce(x, y).err = "none"
        /\ AppendTwice(x, y).buf["a"].size = AppendOnce(x, y).buf["a"].size
        /\ AppendTwice(x, y).buf["a"].capacity = AppendOnce(x, y).buf["a"].capacity
        /\ Content(AppendTwice(x, y).heap, AppendTwice(x, y).buf["a"])
             = Content(AppendOnce(x, y).heap, AppendOnce(x, y).buf["a"])
        /\ Content(AppendOnce(x, y).heap, AppendOnce(x, y).buf["a"])
             = Content(heap, buf["a"]) \o x \o y

\* a second append has completed <<1, 1, .., 2>>
AppendAssociativeWitness ==
    /\ last.op = "append" /\ last.err = "none"
    /\ buf["a"].size = MaxCapOne
    /\ Content(heap, buf["a"])[1] = 1 /\ Content(heap, buf["a"])[2] = 1
    /\ Content(heap, buf["a"])[MaxCapOne] = 2

\* C18: construction or assign from (source pointer, length L, capacity C),
\* for all L and C, L > C included, leaves size min(L, C), capacity
\* max(L, C) and the first min(L, C) source elements as the content.
AssignDataMinMax ==
    \A x \in Bufs, sl \in ExtSrcs(CfgPair), C \in 0..MaxCap :
      LET R == assign3(Ctx(heap, buf), x, sl[1], sl[2], C, Nd(FALSE, FALSE, <<>>))
      IN  /\ R.err = "none"
          /\ R.buf[x].size = min(sl[2], C)
          /\ R.buf[x].capacity = max(sl[2], C)
          /\ Content(R.heap, R.buf[x]) = SubSeq(sl[1].elems, 1, min(sl[2], C))

\* C19: assign(capacity C) on a buffer with size s and content x leaves
\* capacity C, size min(s, C) and content x[0..min(s, C)); for C = 0 the
\* buffer becomes empty and its block is deleted; on a new buffer
\* (buffer(capacity N)) it leaves size 0 and capacity N and allocates
\* nothing when N = 0.
AssignCapKeepsPrefix ==
    \A C \in 0..MaxCapOne :
      LET R == assign_cap(Ctx(heap, buf), "a", C, Nd(FALSE, FALSE, <<>>))
          b == buf["a"]
      IN  /\ R.err = "none" /\ ~R.uaf /\ ~R.dfree
          /\ R.buf["a"].capacity = C
          /\ R.buf["a"].size = min(b.size, C)
          /\ Content(R.heap, R.buf["a"]) = SubSeq(Content(heap, b), 1, min(b.size, C))
          /\ C = 0 => /\ R.buf["a"] = EmptyBuf
                      /\ b.data # 0 => ~R.heap[b.data].live
                      /\ Allocated(heap, R.heap) = {}
          /\ b = EmptyBuf => R.buf["a"].size = 0 /\ (C = 0 => R.heap = heap)

\* assign(capacity) has carried two live elements into a larger block
AssignCapKeepsPrefixWitness ==
    /\ last.op = "assign_cap" /\ last.err = "none"
    /\ buf["a"].size = 2 /\ buf["a"].capacity = MaxCapOne
    /\ Content(heap, buf["a"]) = <<2, 1>>
    /\ BlockOf(heap, buf["a"])[MaxCapOne] = DefaultT

\* the buffer of the scenario: built from {1, 2, 3, 4, 5}, size 5, capacity 5
ScnStart ==
    /\ buf["a"].size = Len(ScnList) /\ buf["a"].capacity = Len(ScnList)
    /\ Content(heap, buf["a"]) = ScnList

\* a.assign(10) on the current buffer
ScnAssign == assign_cap(Ctx(heap, buf), "a", ScnCap, Nd(FALSE, FALSE, <<>>))

\* C20 as amended: for a buffer built from {1, 2, 3, 4, 5} (size 5,
\* capacity 5), assign(10) leaves size 5, capacity 10, a non-null data
\* pointer and the five elements; append({6, 7, 8}) then leaves size 8.
ScenarioKeepsSize ==
    ScnStart =>
      /\ ScnAssign.err = "none"
      /\ ScnAssign.buf["a"].size = Len(ScnList)
      /\ ScnAssign.buf["a"].capacity = ScnCap
      /\ ScnAssign.buf["a"].data # 0
      /\ Content(ScnAssign.heap, ScnAssign.buf["a"]) = ScnList
      /\ LET R == append(ScnAssign, "a", ExtSrc(ScnTail), Len(ScnTail), Nd(FALSE, FALSE, <<>>))
         IN  /\ R.buf["a"].size = Len(ScnList) + Len(ScnTail)
             /\ R.buf["a"].capacity = ScnCap
             /\ Content(R.heap, R.buf["a"]) = ScnList \o ScnTail

\* assign(10) has acted on the buffer {1, 2, 3, 4, 5}
ScenarioWitness ==
    /\ last.op = "assign_cap" /\ last.err = "none"
    /\ buf["a"].size = Len(ScnList) /\ buf["a"].capacity = ScnCap
    /\ Content(heap, buf["a"]) = ScnList

\* C20: for a buffer built from {1, 2, 3, 4, 5} (size 5, capacity 5),
\* assign(10) leaves size 0, capacity 10 and a non-null data pointer.
ScenarioSizeZero ==
    ScnStart =>
      /\ ScnAssign.buf["a"].size = 0
      /\ ScnAssign.buf["a"].capacity = ScnCap
      /\ ScnAssign.buf["a"].data # 0

\* the indices an access is tried with: around the live elements, and the
\* largest size_t
Indices == 0..(MaxCapOne + 1) \cup {SizeMod - 1}

\* C21: at(index) fails with std::out_of_range exactly when index >= size
\* and otherwise returns the element at that index; first() and last() on a
\* buffer with size 0, capacity > 0 included (size - 1 wraps around), fail
\* with std::out_of_range; no such failure changes the buffer.
BoundsChecked ==
    LET S == Ctx(heap, buf)
        b == buf["a"]
    IN  /\ \A index \in Indices :
             LET R == at(S, "a", index)
             IN  /\ R.err = "out_of_range" <=> index >= b.size
                 /\ R.err \in {"none", "out_of_range"}
                 /\ index < b.size => R.ret = Content(heap, b)[index + 1]
                 /\ R.heap = heap /\ R.buf = buf
        /\ b.size = 0 =>
             /\ first(S, "a").err = "out_of_range"
             /\ last_of(S, "a").err = "out_of_range"
        /\ b.size > 0 =>
             /\ first(S, "a").err = "none" /\ first(S, "a").ret = Content(heap, b)[1]
             /\ last_of(S, "a").err = "none"
             /\ last_of(S, "a").ret = Content(heap, b)[b.size]
        /\ first(S, "a").heap = heap /\ first(S, "a").buf = buf
        /\ last_of(S, "a").heap = heap /\ last_of(S, "a").buf = buf

\* last() was called on an allocated buffer without live elements
BoundsCheckedWitness ==
    /\ last.op = "last" /\ last.err = "out_of_range"
    /\ buf["a"].size = 0 /\ buf["a"].capacity > 0

\* C22: swap(a, b) exchanges the (data pointer, size, capacity) triples of a
\* and b without allocating, deallocating or copying an element; swapping a
\* buffer with itself leaves it unchanged; swapping twice restores both.
SwapExchanges ==
    \A x \in Bufs, y \in Bufs :
      LET R == swap(Ctx(heap, buf), x, y)
          T == swap(R, x, y)
      IN  /\ R.err = "none" /\ ~R.dfree /\ ~R.uaf
          /\ R.buf[x] = buf[y] /\ R.buf[y] = buf[x]
          /\ R.heap = heap
          /\ x = y => R.buf = buf
          /\ T.buf = buf /\ T.heap = heap

\* after a swap a holds block 2 with one element and b block 1 with two
SwapExchangesWitness ==
    /\ last.op = "swap"
    /\ buf["a"].data = 2 /\ buf["b"].data = 1
    /\ Content(heap, buf["a"]) = <<2>> /\ Content(heap, buf["b"]) = <<1, 2>>

\* C23: self-assignment is a no-op. a.assign(a), a = a, a.assign(std::move(a))
\* and a = std::move(a) leave data pointer, size, capacity and content
\* unchanged and neither allocate nor deallocate.
SelfAssignNoOp ==
    \A x \in Bufs :
      LET C == assign_copy(Ctx(heap, buf), x, x, Nd(FALSE, FALSE, <<>>))
          M == assign_move(Ctx(heap, buf), x, x)
      IN  /\ C.err = "none" /\ C.buf = buf /\ C.heap = heap /\ ~C.dfree /\ ~C.uaf
          /\ M.err = "none" /\ M.buf = buf /\ M.heap = heap /\ ~M.dfree

\* a = std::move(a) was called on a buffer with two different elements
SelfAssignNoOpWitness ==
    /\ last.op = "assign_move_self" /\ last.err = "none"
    /\ buf["a"].size = 2 /\ buf["a"].capacity = MaxCap
    /\ Content(heap, buf["a"]) = <<1, 2>>

\* the pointers a zero-length source may come with: nullptr, an array of the
\* caller, the buffer's own block, the block of another buffer
ZeroLengthSrcs ==
    {NullSrc, ExtSrc(<<>>), PtrSrc(buf["a"].data, 0), PtrSrc(buf["b"].data, 0)}

\* the call left the member values and every block as they are now
LeavesAll(R) == R.err = "none" /\ R.heap = heap /\ R.buf = buf /\ ~R.uaf /\ ~R.oob

\* C24: append, or insert at any P <= size, with a zero-length source, null
\* or not, raises no error and leaves size, capacity, data pointer and
\* content unchanged; appending an empty buffer is such a call.
ZeroLengthNoOp ==
    \A d \in ZeroLengthSrcs, mm \in BOOLEAN :
      /\ LeavesAll(append(Ctx(heap, buf), "a", d, 0, Nd(FALSE, mm, <<>>)))
      /\ variant = "hpp" =>
           \A P \in 0..buf["a"].size :
             LeavesAll(hpp_insert(Ctx(heap, buf), "a", d, 0, P, Nd(FALSE, mm, <<>>)))

\* an append has left an allocated buffer without live elements
ZeroLengthNoOpWitness ==
    /\ last.op = "append" /\ last.err = "none"
    /\ buf["a"].size = 0 /\ buf["a"].capacity = MaxCapOne

\* every slot of buffer b at an index in [size, capacity) holds T()
SpareDefault(h, b) ==
    \A i \in (b.size + 1)..b.capacity : BlockOf(h, b)[i] = DefaultT

\* C25: spare slots hold the default value. After any sequence of
\* constructors, assign overloads, append, insert, shrink_to_fit, clear and
\* moves (no acquire, no element write at an index >= size) every slot at an
\* index in [size, capacity) holds T().
SpareSlotsDefault ==
    /\ \A x \in Bufs : SpareDefault(heap, buf[x])
    /\ LET R == assign_move(Ctx(heap, buf), "b", "a")
       IN  SpareDefault(R.heap, R.buf["b"])

\* an insert has left two live elements and a spare slot
SpareSlotsDefaultWitness ==
    /\ last.op = "insert" /\ last.err = "none"
    /\ buf["a"].size = 2 /\ buf["a"].capacity = MaxCapOne
    /\ Content(heap, buf["a"]) = <<2, 2>>
    /\ BlockOf(heap, buf["a"])[MaxCapOne] = DefaultT

\* C26: in buffer.h, a.append(std::move(b)) for distinct a and b leaves a
\* with the content of a followed by that of b, size |a| + |b|, and leaves b
\* empty with its block deleted exactly once.
AppendMoveConsumes ==
    variant = "h" =>
      \A x \in Bufs, y \in Bufs :
        x # y =>
          LET R == h_append_move(Ctx(heap, buf), x, y, Nd(FALSE, FALSE, <<>>))
          IN  /\ R.err = "none" /\ ~R.uaf /\ ~R.dfree /\ ~R.oob
              /\ R.buf[x].size = buf[x].size + buf[y].size
              /\ Content(R.heap, R.buf[x]) = Content(heap, buf[x]) \o Content(heap, buf[y])
              /\ R.buf[y] = EmptyBuf
              /\ buf[y].data # 0 => heap[buf[y].data].live /\ ~R.heap[buf[y].data].live

\* a.append(std::move(b)) has put b's element behind a's
AppendMoveConsumesWitness ==
    /\ variant = "h" /\ last.op = "append_move" /\ last.err = "none"
    /\ buf["b"] = EmptyBuf
    /\ Content(heap, buf["a"]) = <<2, 1>>
    /\ \E p \in Blocks : p # buf["a"].data /\ ~heap[p].live /\ p < buf["a"].data

\* C27: copying preserves capacity. A copy of a buffer with size s and
\* capacity c made by the copy constructor, copy assignment or
\* assign(const buffer&) has size s and capacity c, under buffer.h and
\* under buffer.hpp.
CopyKeepsCapacity ==
    \A x \in Bufs, y \in Bufs :
      x # y =>
        LET R == assign_copy(Ctx(heap, buf), x, y, Nd(FALSE, FALSE, <<>>))
        IN  /\ R.err = "none"
            /\ R.buf[x].size = buf[y].size
            /\ R.buf[x].capacity = buf[y].capacity

\* b, one element and a spare slot, was copied into a
CopyKeepsCapacityWitness ==
    /\ last.op = "assign_copy" /\ last.err = "none"
    /\ buf["b"].size = 1 /\ buf["b"].capacity = MaxCap
    /\ buf["a"].size = 1 /\ buf["a"].capacity = MaxCap
    /\ buf["a"].data # buf["b"].data
    /\ Content(heap, buf["a"]) = <<2>> /\ Content(heap, buf["b"]) = <<2>>

\* C28: the two buffer variants agree. After every step of the same sequence
\* of the operations both headers provide (construction, assign(capacity),
\* assign(data, L, C) with L <= C, copy and move assignment, append of a
\* non-aliased source, clear, release, swap), run on a buffer of buffer.hpp
\* and on a buffer of buffer.h, the two buffers have the same size, the same
\* capacity and the same content in [0, capacity), and no call raised an
\* error or touched memory it does not own.
VariantsAgree ==
    /\ buf["a"].size = buf["b"].size
    /\ buf["a"].capacity = buf["b"].capacity
    /\ BlockOf(heap, buf["a"]) = BlockOf(heap, buf["b"])
    /\ Len(BlockOf(heap, buf["a"])) = buf["a"].capacity
    /\ last.err = "none" /\ ~last.uaf /\ ~last.dfree /\ ~last.oob

\* both buffers were grown by assign(capacity) with an element kept, each in
\* a block of its own
VariantsAgreeWitness ==
    /\ last.op = "assign_cap"
    /\ buf["a"].size = 1 /\ buf["a"].capacity = MaxCap
    /\ buf["b"].size = 1 /\ buf["b"].capacity = MaxCap
    /\ buf["a"].data # buf["b"].data
    /\ BlockOf(heap, buf["a"]) = Append(<<2>>, DefaultT) \o Zeros(MaxCap - 2)
    /\ BlockOf(heap, buf["b"]) = BlockOf(heap, buf["a"])

\* C29: memory safety of insertion under size_t arithmetic modulo 2^w. For
\* every insert(data, L, P) or append(data, L) with P <= size and a
\* non-aliased source of L elements, every slot written or read in the
\* buffer's block is below the block's capacity, including when size + L
\* exceeds the largest size_t value. (Refuted: when size + L wraps, no block
\* is allocated and the copies run past the block or before its start.)
WrapMod == 2 ^ WrapBits
WideSrcs == {ExtSrc(s) : s \in SeqsOf({1}, 1, WrapMod - 1)}
Narrow(S) == [S EXCEPT !.mod = WrapMod]
InsertInBounds ==
    buf["a"].size < WrapMod =>
      \A d \in WideSrcs :
        /\ ~append(Narrow(Ctx(heap, buf)), "a", d, Len(d.elems),
                   Nd(FALSE, FALSE, <<>>)).oob
        /\ variant = "hpp" =>
             \A P \in 0..buf["a"].size :
               ~hpp_insert(Narrow(Ctx(heap, buf)), "a", d, Len(d.elems), P,
                           Nd(FALSE, FALSE, <<>>)).oob

\* the result R of adding L elements from a null pointer to buffer a: no
\* error, the old elements where they were, followed by the L slots that were
\* behind them (T() where the block had to grow), and nothing else touched
NullGrown(R, L) ==
    LET b   == buf["a"]
        old == BlockOf(heap, b) \o Zeros(L)
    IN  /\ R.err = "none" /\ ~R.uaf /\ ~R.dfree /\ ~R.oob
        /\ R.buf["a"].size = b.size + L
        /\ R.buf["a"].capacity = IF b.size + L > b.capacity THEN b.size + L
                                 ELSE b.capacity
        /\ Content(R.heap, R.buf["a"]) = SubSeq(old, 1, b.size + L)
        /\ Len(BlockOf(R.heap, R.buf["a"])) = R.buf["a"].capacity
        /\ b.size + L <= b.capacity => R.heap = heap /\ R.buf["a"].data = b.data
        /\ R.buf["b"] = buf["b"]
        /\ BlockOf(R.heap, R.buf["b"]) = BlockOf(heap, buf["b"])

\* C30: null source with non-zero length. insert(nullptr, L, P) or
\* append(nullptr, L) with L > 0 and P <= size raises no error, copies and
\* shifts nothing, keeps the elements at [0, old size) where they were and
\* sets size to old size + L, growing capacity to old size + L if needed, so
\* the added elements are the slots behind the old ones, not a gap at P.
NullSourceGrows ==
    \A L \in 1..MaxSrc :
      /\ NullGrown(append(Ctx(heap, buf), "a", NullSrc, L, Nd(FALSE, FALSE, <<>>)), L)
      /\ variant = "hpp" =>
           \A P \in 0..buf["a"].size :
             NullGrown(hpp_insert(Ctx(heap, buf), "a", NullSrc, L, P,
                                  Nd(FALSE, FALSE, <<>>)), L)

\* an insert has left a full buffer whose last element is T()
NullSourceGrowsWitness ==
    /\ variant = "hpp" /\ last.op = "insert" /\ last.err = "none"
    /\ buf["a"].size = MaxCapOne /\ buf["a"].capacity = MaxCapOne
    /\ SubSeq(Content(heap, buf["a"]), 1, 2) = <<1, 2>>
    /\ Content(heap, buf["a"])[MaxCapOne] = DefaultT

====
